---- MODULE Spec2Model ----
(***************************************************************************)
(* Model of the listings / payments / phone-unlock backend:                *)
(*   src/unnamed/part_000  - the three tables and the insert schemas       *)
(*   src/storage.ts        - DatabaseStorage and the request handlers      *)
(*                                                                         *)
(* Rows are kept in insertion order; a row's id is its position, which is  *)
(* also its createdAt order.  Every `await storage.x()` is one atomic step *)
(* of the store; a handler with two store calls is two steps, and other    *)
(* requests may run between them.  Every store call may throw.  res is the *)
(* HTTP answer of the step just taken: its status code and the part of the *)
(* JSON body that is read back (every error body is {error: message}).     *)
(***************************************************************************)
EXTENDS Naturals, Integers, Sequences, FiniteSets, Bags, TLC

\* ---- bounds of the model ----
MaxListings == 2
MaxUnlocks  == 1
MaxInflight == 2

\* ---- program constants ----
MaxFiles      == 10
PublishAmount == 1500
UnlockAmount  == 2500

VARIABLES
    listings,      \* table listings: Seq of [status, paymentStatus, featured]
    payments,      \* table payments: Seq of [listingId, type, amount, status]
    phoneUnlocks,  \* table phone_unlocks: Seq of [listingId, paymentStatus]
    inflight,      \* bag of handlers suspended between their two store calls
    res            \* answer sent by the step just taken (code 0: none sent yet)

vars   == <<listings, payments, phoneUnlocks, inflight, res>>
tables == <<listings, payments, phoneUnlocks>>

NULL == 0

\* ---- request inputs ----
\* <<number of files, rooms, price, all required text fields present,
\*   a status the caller put in the form ("" for none)>>
CreateRequests ==
    { <<1, 1, 1, TRUE, "">>, <<MaxFiles, 1, 1, TRUE, "">>,   \* accepted
      <<1, 1, 1, TRUE, "approved">>,                         \* accepted, status is not the caller's to set
      <<0, 1, 1, TRUE, "">>,                                 \* no image
      <<MaxFiles + 1, 1, 1, TRUE, "">>,                      \* more files than upload.array takes
      <<1, 0, 1, TRUE, "">>, <<1, 1, 0, TRUE, "">>,          \* rooms < 1, price < 1
      <<1, 1, 1, FALSE, "">> }                               \* a required field is missing

\* ---- schema (src/unnamed/part_000) ----
ListingRow(st, pay, feat) == [status |-> st, paymentStatus |-> pay, featured |-> feat]

PaymentRow(lid, ty, amt, st) == [listingId |-> lid, type |-> ty, amount |-> amt, status |-> st]

PhoneUnlockRow(lid, pay) == [listingId |-> lid, paymentStatus |-> pay]

\* faulty variant: the schema without its check of rooms
insertListingSchema_noRooms(nImages, rooms, price, hasFields) ==
    hasFields /\ nImages >= 1 /\ price >= 1

insertListingSchema(nImages, rooms, price, hasFields) ==
    hasFields /\ nImages >= 1 /\ rooms >= 1 /\ price >= 1

\* faulty variant: the schema keeps a status the caller supplied
insertListingSchemaParse_keepsStatus(nImages, rooms, price, status) ==
    IF status = ""
    THEN [images |-> nImages, rooms |-> rooms, price |-> price]
    ELSE [images |-> nImages, rooms |-> rooms, price |-> price, status |-> status]

\* what parse returns: the keys the schema omits are stripped
insertListingSchemaParse(nImages, rooms, price, status) ==
    [images |-> nImages, rooms |-> rooms, price |-> price]

insertPhoneUnlockSchema(listingId) == listingId # NULL

\* ---- DatabaseStorage (src/storage.ts) ----
\* a column the values do not name takes its default
createListing(ls, insertListing) ==
    Append(ls, ListingRow(IF "status" \in DOMAIN insertListing THEN insertListing.status ELSE "pending",
                          "pending", FALSE))

\* faulty variant: the where clause without paymentStatus
getApprovedListings_statusOnly(ls) ==
    LET n    == Len(ls)
        desc == [i \in 1..n |-> n + 1 - i]
    IN  SelectSeq(desc, LAMBDA i : ls[i].status = "approved")

getApprovedListings(ls) ==
    LET n    == Len(ls)
        desc == [i \in 1..n |-> n + 1 - i]
    IN  SelectSeq(desc, LAMBDA i : ls[i].status = "approved" /\ ls[i].paymentStatus = "confirmed")

updateListingStatus(ls, id, status) ==
    [i \in 1..Len(ls) |-> IF i = id THEN [ls[i] EXCEPT !.status = status] ELSE ls[i]]

\* faulty variant: the update without its where clause
updateListingPaymentStatus_noWhere(ls, id, paymentStatus) ==
    [i \in 1..Len(ls) |-> [ls[i] EXCEPT !.paymentStatus = paymentStatus]]

updateListingPaymentStatus(ls, id, paymentStatus) ==
    [i \in 1..Len(ls) |-> IF i = id THEN [ls[i] EXCEPT !.paymentStatus = paymentStatus] ELSE ls[i]]

\* faulty variant: the where clause without paymentStatus
approveAllPendingListings_anyPayment(ls) ==
    LET hit == {i \in 1..Len(ls) : ls[i].status = "pending"}
    IN  [rows  |-> [i \in 1..Len(ls) |-> IF i \in hit THEN [ls[i] EXCEPT !.status = "approved"] ELSE ls[i]],
         count |-> Cardinality(hit)]

\* faulty variant: the where clause without status
approveAllPendingListings_anyStatus(ls) ==
    LET hit == {i \in 1..Len(ls) : ls[i].paymentStatus = "confirmed"}
    IN  [rows  |-> [i \in 1..Len(ls) |-> IF i \in hit THEN [ls[i] EXCEPT !.status = "approved"] ELSE ls[i]],
         count |-> Cardinality(hit)]

approveAllPendingListings(ls) ==
    LET hit == {i \in 1..Len(ls) : ls[i].status = "pending" /\ ls[i].paymentStatus = "confirmed"}
    IN  [rows  |-> [i \in 1..Len(ls) |-> IF i \in hit THEN [ls[i] EXCEPT !.status = "approved"] ELSE ls[i]],
         count |-> Cardinality(hit)]

\* faulty variant: the insert loses listingId
createPayment_noLink(ps, listingId, type, amount) ==
    Append(ps, PaymentRow(NULL, type, amount, "pending"))

createPayment(ps, listingId, type, amount) ==
    Append(ps, PaymentRow(listingId, type, amount, "pending"))

\* faulty variant: the update flips a status that is already set
updatePaymentStatus_toggle(ps, id, status) ==
    [i \in 1..Len(ps) |->
        IF i = id
        THEN [ps[i] EXCEPT !.status = IF ps[i].status = status THEN "pending" ELSE status]
        ELSE ps[i]]

\* faulty variant: the update writes nothing and still returns the row
updatePaymentStatus_noWrite(ps, id, status) == ps

updatePaymentStatus(ps, id, status) ==
    [i \in 1..Len(ps) |-> IF i = id THEN [ps[i] EXCEPT !.status = status] ELSE ps[i]]

\* faulty variant: paymentStatus defaults to confirmed
createPhoneUnlock_confirmed(us, listingId) == Append(us, PhoneUnlockRow(listingId, "confirmed"))

createPhoneUnlock(us, listingId) == Append(us, PhoneUnlockRow(listingId, "pending"))

\* ---- responses ----
Res(body, code, id) == [body |-> body, code |-> code, id |-> id, count |-> 0, list |-> <<>>]

Error(code) == Res("error", code, NULL)

Awaiting == Res("none", 0, NULL)

Cont(op, lid, pid, uid) == [op |-> op, lid |-> lid, pid |-> pid, uid |-> uid]

Suspend(c) == inflight (+) SetToBag({c})

Resume(c) == inflight (-) SetToBag({c})

Init ==
    /\ listings = <<>>
    /\ payments = <<>>
    /\ phoneUnlocks = <<>>
    /\ inflight = EmptyBag
    /\ res = Awaiting

\* ---- POST /api/listings ----
CreateListing(nImages, rooms, price, hasFields, status) ==
    /\ IF nImages > MaxFiles
       THEN /\ res' = Error(500)
            /\ UNCHANGED <<tables, inflight>>
       ELSE IF nImages = 0 \/ ~insertListingSchema(nImages, rooms, price, hasFields)
       THEN /\ res' = Error(400)
            /\ UNCHANGED <<tables, inflight>>
       ELSE \E ok \in BOOLEAN :
            IF ok
            THEN /\ Len(listings) < MaxListings
                 /\ BagCardinality(inflight) < MaxInflight
                 /\ listings' = createListing(listings, insertListingSchemaParse(nImages, rooms, price, status))
                 /\ inflight' = Suspend(Cont("createListing", Len(listings'), NULL, NULL))
                 /\ res' = Awaiting
                 /\ UNCHANGED <<payments, phoneUnlocks>>
            ELSE /\ res' = Error(500)
                 /\ UNCHANGED <<tables, inflight>>

CreateListingPayment(c) ==
    /\ c \in BagToSet(inflight)
    /\ c.op = "createListing"
    /\ inflight' = Resume(c)
    /\ \E ok \in BOOLEAN :
        IF ok
        THEN /\ payments' = createPayment(payments, c.lid, "publish", PublishAmount)
             /\ res' = Res("listing+payment", 200, c.lid)
             /\ UNCHANGED <<listings, phoneUnlocks>>
        ELSE /\ res' = Error(500)
             /\ UNCHANGED tables

\* ---- GET /api/listings ----
ListListings ==
    /\ \E ok \in BOOLEAN :
        IF ok
        THEN res' = [Res("listings", 200, NULL) EXCEPT !.list = getApprovedListings(listings)]
        ELSE res' = Error(500)
    /\ UNCHANGED <<tables, inflight>>

\* ---- POST /api/phone-unlock ----
PhoneUnlock(listingId) ==
    /\ IF ~insertPhoneUnlockSchema(listingId)
       THEN /\ res' = Error(400)
            /\ UNCHANGED <<tables, inflight>>
       ELSE \E ok \in BOOLEAN :
            \* the insert throws on a store failure and on the foreign key
            \* phone_unlocks.listing_id -> listings.id
            IF ok /\ listingId \in 1..Len(listings)
            THEN /\ Len(phoneUnlocks) < MaxUnlocks
                 /\ BagCardinality(inflight) < MaxInflight
                 /\ phoneUnlocks' = createPhoneUnlock(phoneUnlocks, listingId)
                 /\ inflight' = Suspend(Cont("phoneUnlock", listingId, NULL, Len(phoneUnlocks')))
                 /\ res' = Awaiting
                 /\ UNCHANGED <<listings, payments>>
            ELSE /\ res' = Error(500)
                 /\ UNCHANGED <<tables, inflight>>

PhoneUnlockPayment(c) ==
    /\ c \in BagToSet(inflight)
    /\ c.op = "phoneUnlock"
    /\ inflight' = Resume(c)
    /\ \E ok \in BOOLEAN :
        IF ok
        THEN /\ payments' = createPayment(payments, NULL, "unlock", UnlockAmount)
             /\ res' = Res("unlock+payment", 200, c.uid)
             /\ UNCHANGED <<listings, phoneUnlocks>>
        ELSE /\ res' = Error(500)
             /\ UNCHANGED tables

\* ---- POST /api/payments/:id/confirm ----
ConfirmPayment(id) ==
    /\ \E ok \in BOOLEAN :
        IF ~ok
        THEN /\ res' = Error(500)
             /\ UNCHANGED <<tables, inflight>>
        ELSE IF id \notin 1..Len(payments)
        THEN /\ res' = Error(404)
             /\ UNCHANGED <<tables, inflight>>
        ELSE /\ payments' = updatePaymentStatus(payments, id, "confirmed")
             /\ UNCHANGED <<listings, phoneUnlocks>>
             /\ LET payment == payments'[id]
                IN  IF payment.listingId # NULL /\ payment.type = "publish"
                    THEN /\ BagCardinality(inflight) < MaxInflight
                         /\ inflight' = Suspend(Cont("confirmPayment", payment.listingId, id, NULL))
                         /\ res' = Awaiting
                    ELSE /\ inflight' = inflight
                         /\ res' = Res("payment", 200, id)

ConfirmPaymentCascade(c) ==
    /\ c \in BagToSet(inflight)
    /\ c.op = "confirmPayment"
    /\ inflight' = Resume(c)
    /\ \E ok \in BOOLEAN :
        IF ok
        THEN /\ listings' = updateListingPaymentStatus(listings, c.lid, "confirmed")
             /\ res' = Res("payment", 200, c.pid)
             /\ UNCHANGED <<payments, phoneUnlocks>>
        ELSE /\ res' = Error(500)
             /\ UNCHANGED tables

\* ---- POST /api/admin/listings/:id/approve and /reject ----
SetStatus(id, status) ==
    /\ \E ok \in BOOLEAN :
        IF ~ok
        THEN /\ res' = Error(500)
             /\ UNCHANGED tables
        ELSE IF id \notin 1..Len(listings)
        THEN /\ res' = Error(404)
             /\ UNCHANGED tables
        ELSE /\ listings' = updateListingStatus(listings, id, status)
             /\ res' = Res("listing", 200, id)
             /\ UNCHANGED <<payments, phoneUnlocks>>
    /\ UNCHANGED inflight

Approve(id) == SetStatus(id, "approved")

Reject(id) == SetStatus(id, "rejected")

\* ---- POST /api/admin/listings/approve-all ----
ApproveAll ==
    /\ \E ok \in BOOLEAN :
        IF ok
        THEN LET result == approveAllPendingListings(listings)
             IN  /\ listings' = result.rows
                 /\ res' = [Res("count", 200, NULL) EXCEPT !.count = result.count]
        ELSE /\ res' = Error(500)
             /\ UNCHANGED listings
    /\ UNCHANGED <<payments, phoneUnlocks, inflight>>

\* ---- ids a request may name: every existing row and one that does not exist ----
ListingIds == 1..(Len(listings) + 1)

PaymentIds == 1..(Len(payments) + 1)

Next ==
    \/ \E q \in CreateRequests : CreateListing(q[1], q[2], q[3], q[4], q[5])
    \/ \E c \in BagToSet(inflight) : CreateListingPayment(c)
    \/ ListListings
    \/ \E l \in {NULL} \cup ListingIds : PhoneUnlock(l)
    \/ \E c \in BagToSet(inflight) : PhoneUnlockPayment(c)
    \/ \E id \in PaymentIds : ConfirmPayment(id)
    \/ \E c \in BagToSet(inflight) : ConfirmPaymentCascade(c)
    \/ \E id \in ListingIds : Approve(id)
    \/ \E id \in ListingIds : Reject(id)
    \/ ApproveAll

Spec == Init /\ [][Next]_vars

\* ---- helpers of the properties ----
Elems(seq) == {seq[i] : i \in DOMAIN seq}

PublishPaymentsOf(l) == {k \in DOMAIN payments : payments[k].type = "publish" /\ payments[k].listingId = l}

\* C1: the public list answered by GET /api/listings holds a listing if and
\* only if its status is approved and its paymentStatus is confirmed, whatever
\* requests came before.
C1_VisibleIffApprovedAndConfirmed ==
    (res.body = "listings" /\ res.code = 200) =>
        /\ Elems(res.list) \subseteq DOMAIN listings
        /\ \A l \in DOMAIN listings :
              (l \in Elems(res.list)) <=>
              (listings[l].status = "approved" /\ listings[l].paymentStatus = "confirmed")

\* one listing is shown while an approved but unpaid one is held back
C1_Witness ==
    /\ res.body = "listings"
    /\ res.list # <<>>
    /\ \E l \in DOMAIN listings :
          listings[l].status = "approved" /\ listings[l].paymentStatus = "pending"

\* C2: a successful approve-all sets status = approved on exactly the listings
\* that are pending and confirmed when its update runs, answers their number,
\* and changes no other listing, no payment and no phone unlock.
C2_ApproveAllExact ==
    [][(ApproveAll /\ res'.code = 200) =>
        LET eligible == {l \in DOMAIN listings :
                            listings[l].status = "pending" /\ listings[l].paymentStatus = "confirmed"}
        IN  /\ DOMAIN listings' = DOMAIN listings
            /\ \A l \in eligible : listings'[l] = [listings[l] EXCEPT !.status = "approved"]
            /\ \A l \in DOMAIN listings \ eligible : listings'[l] = listings[l]
            /\ res'.count = Cardinality(eligible)
            /\ payments' = payments
            /\ phoneUnlocks' = phoneUnlocks]_vars

\* approve-all has just approved a listing and left an unpaid pending one alone
C2_Witness ==
    /\ res.body = "count"
    /\ res.count >= 1
    /\ \E l \in DOMAIN listings :
          listings[l].status = "pending" /\ listings[l].paymentStatus = "pending"

\* C3: a confirm-payment request that answers 200 for payment P has set
\* P.status = confirmed; for a publish payment linked to L it has set
\* L.paymentStatus = confirmed and changed nothing else of any listing; for an
\* unlock payment it has changed no listing at all.
C3_ConfirmPaymentEffect ==
    [][/\ \A id \in PaymentIds :
            (ConfirmPayment(id) /\ res'.code \in {0, 200}) =>
                /\ payments'[id].status = "confirmed"
                /\ listings' = listings
                /\ res'.code = 200 <=> payments'[id].type = "unlock"
       /\ \A c \in BagToSet(inflight) :
            (ConfirmPaymentCascade(c) /\ res'.code = 200) =>
                /\ payments'[c.pid].status = "confirmed"
                /\ payments'[c.pid].type = "publish"
                /\ payments'[c.pid].listingId = c.lid
                /\ DOMAIN listings' = DOMAIN listings
                /\ listings'[c.lid] = [listings[c.lid] EXCEPT !.paymentStatus = "confirmed"]
                /\ \A l \in DOMAIN listings \ {c.lid} : listings'[l] = listings[l]]_vars

\* a publish payment was confirmed with its listing, next to an unpaid listing
C3_Witness ==
    /\ res.body = "payment"
    /\ res.code = 200
    /\ res.id \in DOMAIN payments
    /\ payments[res.id].type = "publish"
    /\ listings[payments[res.id].listingId].paymentStatus = "confirmed"
    /\ \E l \in DOMAIN listings : listings[l].paymentStatus = "pending"

\* C4 as stated: once a listing is approved or rejected, its status never
\* changes again.
C4_StatusTerminal ==
    [][\A l \in DOMAIN listings :
          listings[l].status \in {"approved", "rejected"} =>
              (l \in DOMAIN listings' /\ listings'[l].status = listings[l].status)]_vars

\* C4 amended: a status changes only by admin-approve (to approved, from any
\* status), admin-reject (to rejected, from any status) or approve-all (from
\* pending to approved); so no listing returns to pending and approve-all
\* leaves approved and rejected listings alone, but approve and reject
\* overwrite each other.
C4_StatusTransitions ==
    [][\A l \in DOMAIN listings :
          /\ l \in DOMAIN listings'
          /\ listings'[l].status # listings[l].status =>
                \/ Approve(l) /\ listings'[l].status = "approved"
                \/ Reject(l) /\ listings'[l].status = "rejected"
                \/ ApproveAll /\ listings[l].status = "pending" /\ listings'[l].status = "approved"]_vars

\* approve-all has run over a paid listing that was rejected, and left it
C4_Witness ==
    /\ res.body = "count"
    /\ \E l \in DOMAIN listings :
          listings[l].status = "rejected" /\ listings[l].paymentStatus = "confirmed"

\* C5: a Payment.status or a Listing.paymentStatus that is confirmed is
\* confirmed in every later state.
C5_ConfirmedIsTerminal ==
    [][/\ \A k \in DOMAIN payments :
            /\ k \in DOMAIN payments'
            /\ payments[k].status = "confirmed" => payments'[k].status = "confirmed"
       /\ \A l \in DOMAIN listings :
            /\ l \in DOMAIN listings'
            /\ listings[l].paymentStatus = "confirmed" => listings'[l].paymentStatus = "confirmed"]_vars

\* a paid listing whose payment stayed confirmed through a later rejection
C5_Witness ==
    /\ res.body = "listing"
    /\ res.id \in DOMAIN listings
    /\ listings[res.id].status = "rejected"
    /\ listings[res.id].paymentStatus = "confirmed"
    /\ \E k \in PublishPaymentsOf(res.id) : payments[k].status = "confirmed"

\* C6: an accepted create-listing request (1 to 10 images, valid fields) adds
\* exactly one listing, pending / pending / not featured, and then exactly one
\* payment, publish / 1500 / pending, linked to that listing; every listing is
\* referenced by at most one payment and every publish payment references an
\* existing listing.
C6_CreateListingEffect ==
    /\ [](/\ \A l \in DOMAIN listings :
                Cardinality({k \in DOMAIN payments : payments[k].listingId = l}) <= 1
          /\ \A k \in DOMAIN payments :
                payments[k].type = "publish" => payments[k].listingId \in DOMAIN listings)
    /\ [][/\ \A q \in CreateRequests :
               (CreateListing(q[1], q[2], q[3], q[4], q[5]) /\ res'.code = 0) =>
                   /\ q[1] \in 1..MaxFiles
                   /\ listings' = Append(listings, [status |-> "pending", paymentStatus |-> "pending", featured |-> FALSE])
                   /\ BagIn([op |-> "createListing", lid |-> Len(listings) + 1, pid |-> NULL, uid |-> NULL], inflight')
                   /\ payments' = payments
          /\ \A c \in BagToSet(inflight) :
               (CreateListingPayment(c) /\ res'.code = 200) =>
                   /\ payments' = Append(payments, [listingId |-> c.lid, type |-> "publish", amount |-> 1500, status |-> "pending"])
                   /\ c.lid \in DOMAIN listings
                   /\ res'.id = c.lid
                   /\ listings' = listings]_vars

\* create-listing has answered with the listing and its one pending payment
C6_Witness ==
    /\ res.body = "listing+payment"
    /\ res.id \in DOMAIN listings
    /\ \E k \in PublishPaymentsOf(res.id) :
          payments[k].status = "pending" /\ payments[k].amount = PublishAmount

\* a listing no payment references, outside the create-listing that is still
\* between its two writes
Orphan(l) ==
    /\ PublishPaymentsOf(l) = {}
    /\ ~ \E c \in BagToSet(inflight) : c.op = "createListing" /\ c.lid = l

\* a confirmed publish payment whose listing is unconfirmed, outside the
\* confirm-payment that is still between its two writes
Stale(k) ==
    /\ payments[k].type = "publish"
    /\ payments[k].status = "confirmed"
    /\ listings[payments[k].listingId].paymentStatus = "pending"
    /\ ~ \E c \in BagToSet(inflight) : c.op = "confirmPayment" /\ c.pid = k

\* orphans and stale payments come from a failed second write and nothing else
OnlyFailuresBreakPairs ==
    /\ \A l \in DOMAIN listings' :
          (Orphan(l)' /\ ~(l \in DOMAIN listings /\ Orphan(l))) =>
              \E c \in BagToSet(inflight) :
                  c.lid = l /\ CreateListingPayment(c) /\ res'.code = 500
    /\ \A k \in DOMAIN payments' :
          (Stale(k)' /\ ~(k \in DOMAIN payments /\ Stale(k))) =>
              \E c \in BagToSet(inflight) :
                  c.pid = k /\ ConfirmPaymentCascade(c) /\ res'.code = 500

\* C7 as stated: a failed second write answers 500 and rolls nothing back; it
\* leaves the new listing pending / pending without a payment, respectively
\* the payment confirmed and its listing still pending; no other step makes
\* an orphan listing or a stale confirmed payment.
C7_NoRollbackAsStated ==
    [][/\ \A c \in BagToSet(inflight) :
            (CreateListingPayment(c) /\ res'.code = 500) =>
                /\ tables' = tables
                /\ listings'[c.lid].status = "pending"
                /\ listings'[c.lid].paymentStatus = "pending"
                /\ PublishPaymentsOf(c.lid)' = {}
       /\ \A c \in BagToSet(inflight) :
            (ConfirmPaymentCascade(c) /\ res'.code = 500) =>
                /\ tables' = tables
                /\ payments'[c.pid].status = "confirmed"
                /\ listings'[c.lid].paymentStatus = "pending"
       /\ OnlyFailuresBreakPairs]_vars

\* C7 amended: the same, except that the orphan listing's status is whatever
\* the admin requests made of it meanwhile, and the listing of the confirmed
\* payment keeps the paymentStatus it had, which is confirmed already when
\* another confirmation of the same payment has cascaded.
C7_NoRollback ==
    [][/\ \A c \in BagToSet(inflight) :
            (CreateListingPayment(c) /\ res'.code = 500) =>
                /\ tables' = tables
                /\ listings'[c.lid].paymentStatus = "pending"
                /\ PublishPaymentsOf(c.lid)' = {}
       /\ \A c \in BagToSet(inflight) :
            (ConfirmPaymentCascade(c) /\ res'.code = 500) =>
                /\ tables' = tables
                /\ payments'[c.pid].status = "confirmed"
                /\ payments'[c.pid].listingId = c.lid
       /\ OnlyFailuresBreakPairs]_vars

\* both failures have happened: an orphan listing and a stale confirmed payment
C7_Witness ==
    /\ res = Error(500)
    /\ \E l \in DOMAIN listings : Orphan(l)
    /\ \E k \in DOMAIN payments : Stale(k)

\* C8: a request answered 400 or 404 writes nothing; create-listing without
\* an image or with rooms < 1, price < 1 or a missing field, and phone-unlock
\* without listingId, are answered 400; confirm-payment, approve and reject
\* of an id that does not exist are answered 404 (500 when the store call
\* itself throws) and write nothing.
C8_RejectedRequestsWriteNothing ==
    [][/\ res'.code \in {400, 404} => tables' = tables
       /\ \A q \in CreateRequests :
            (/\ CreateListing(q[1], q[2], q[3], q[4], q[5])
             /\ q[1] <= MaxFiles
             /\ (q[1] = 0 \/ q[2] < 1 \/ q[3] < 1 \/ ~q[4])) =>
                (res'.code = 400 /\ tables' = tables)
       /\ PhoneUnlock(NULL) => (res'.code = 400 /\ tables' = tables)
       /\ \A id \in PaymentIds \ DOMAIN payments :
            ConfirmPayment(id) => (res'.code \in {404, 500} /\ tables' = tables)
       /\ \A id \in ListingIds \ DOMAIN listings :
            (Approve(id) \/ Reject(id)) => (res'.code \in {404, 500} /\ tables' = tables)]_vars

\* a request was refused while rows of all three tables exist
C8_Witness ==
    /\ res.code \in {400, 404}
    /\ listings # <<>>
    /\ payments # <<>>
    /\ phoneUnlocks # <<>>

\* C9: a listing whose paymentStatus is confirmed has a confirmed publish
\* payment that references it, in every reachable state.
C9_ConfirmedListingHasConfirmedPayment ==
    \A l \in DOMAIN listings :
        listings[l].paymentStatus = "confirmed" =>
            \E k \in DOMAIN payments :
                /\ payments[k].listingId = l
                /\ payments[k].type = "publish"
                /\ payments[k].status = "confirmed"

\* a confirmed listing while another handler is between its two writes
C9_Witness ==
    /\ \E l \in DOMAIN listings : listings[l].paymentStatus = "confirmed"
    /\ inflight # EmptyBag

\* C10: every PhoneUnlock has paymentStatus = pending in every reachable state.
C10_PhoneUnlockStaysPending ==
    \A u \in DOMAIN phoneUnlocks : phoneUnlocks[u].paymentStatus = "pending"

\* the unlock payment of a phone unlock has been confirmed
C10_Witness ==
    /\ phoneUnlocks # <<>>
    /\ res.body = "payment"
    /\ res.code = 200
    /\ res.id \in DOMAIN payments
    /\ payments[res.id].type = "unlock"
    /\ payments[res.id].status = "confirmed"
====
